---- MODULE Spec2Model ----
(***************************************************************************)
(* A model of the kratgo caching reverse proxy: the request handler of    *)
(* internal/proxy/proxy.go (cache lookup, backend round-robin, header     *)
(* rules, no-cache rules, conditional cache write) over a host-keyed      *)
(* cache of per-path responses.                                           *)
(***************************************************************************)
EXTENDS Integers, Sequences, FiniteSets, TLC

VARIABLES
    cfg,             \* the proxy's configuration after New: rules and backends
    cache,           \* the cache store: host key -> Entry (sequence of Responses)
    currentBackend,  \* Proxy.currentBackend, the round-robin cursor
    ctx,             \* the RequestCtx of the most recent handler invocation
    run,             \* what that invocation did (backend called, evaluations, ...)
    toolsOut,        \* tool bundles acquired from the pool and not yet released
    window,          \* observer: the backends selected by the latest invocations
    mu,              \* Proxy.mu: the goroutine holding it, or NoWorker
    calls,           \* per goroutine: where it is inside getBackend, and its locals
    tally,           \* observer: getBackend's selections in the order of the mutex
    boot,            \* a call of New: the configuration given and what it returned
    chEntries,       \* Invalidator.chEntries: the queue of invalidation entries
    entryPool,       \* the pool of invalidator.Entry objects, as they were released
    admin,           \* the most recent admin request and what invalidateView did
    invLog,          \* observer: the hosts a by-host entry was accepted for, the
                     \* Responses invalidated, the Responses backends produced
    hw,              \* request workers: where each is in Proxy.handler
    tools,           \* the proxyTools bundles of Proxy.tools
    overlapped,      \* observer: two handler invocations have been in progress at once
    kept             \* observer: per request, the response stored for it last

\* The admin front, the invalidator and the request workers.
sideVars == <<chEntries, entryPool, admin, invLog, hw, tools, overlapped, kept>>

vars == <<cfg, cache, currentBackend, ctx, run, toolsOut, window, mu, calls, tally, boot,
          sideVars>>

\* What the handler leaves alone and what getBackend leaves alone.
getBackendVars == <<mu, calls, tally, boot, sideVars>>
handlerVars == <<cache, ctx, run, toolsOut, window, boot, sideVars>>

----------------------------------------------------------------------------
(* Bounds and program constants *)

MaxBackends == 2

\* Rounds of the round-robin cycle an observation window spans.
Rounds == 10

\* getBackend calls started by the concurrent goroutines.
MaxCalls == 4

StatusOK == 200
StatusInternalServerError == 500

Hosts == {"h1", "h2"}
Paths == {"/p1", "/p2"}
headerLocation == "Location"
HeaderKeys == {headerLocation, "X-Data", "X-Kratgo"}

NoHeaders == [k \in HeaderKeys |-> ""]
WithHeader(h, k, v) == [h EXCEPT ![k] = v]

Requests == [host : Hosts, path : Paths]

\* What a backend's Do leaves in the client's response, and its error.
Replies ==
    { [err |-> FALSE, status |-> 200, body |-> "b1", headers |-> WithHeader(NoHeaders, "X-Data", "1")],
      [err |-> FALSE, status |-> 200, body |-> "b2", headers |-> NoHeaders],
      [err |-> FALSE, status |-> 301, body |-> "moved", headers |-> WithHeader(NoHeaders, headerLocation, "u")],
      [err |-> FALSE, status |-> 200, body |-> "b2", headers |-> WithHeader(NoHeaders, headerLocation, "u")],
      [err |-> FALSE, status |-> 404, body |-> "nf", headers |-> NoHeaders],
      [err |-> TRUE,  status |-> 200, body |-> "", headers |-> NoHeaders] }

\* No backend was asked.
NoReply == [err |-> FALSE, status |-> 0, body |-> "", headers |-> NoHeaders]

----------------------------------------------------------------------------
(* Rules.  A compiled rule is a conjunction of comparisons of a parameter  *)
(* with a literal; a rule whose parameter list does not cover its         *)
(* expression fails when it is evaluated (broken).                        *)

Atom(name, key, op, val) == [name |-> name, key |-> key, op |-> op, val |-> val]
Rule(atoms, broken) == [atoms |-> atoms, broken |-> broken]

BrokenRule == Rule(<<>>, TRUE)
HostIs(h) == Rule(<<Atom("host", "", "==", h)>>, FALSE)
RespDataIs1 == Rule(<<Atom("respHeader", "X-Data", "==", "1")>>, FALSE)
RespDataNot1 == Rule(<<Atom("respHeader", "X-Data", "!=", "1")>>, FALSE)
P2AndRespDataNot1 ==
    Rule(<<Atom("path", "", "==", "/p2"), Atom("respHeader", "X-Data", "!=", "1")>>, FALSE)

setHeaderAction == "set"
unsetHeaderAction == "unset"
NoWhen == Rule(<<>>, FALSE)
HeaderRule(action, name, value, when) ==
    [action |-> action, name |-> name, value |-> value, when |-> when]

SetKratgo == HeaderRule(setHeaderAction, "X-Kratgo", "true", RespDataIs1)
UnsetData == HeaderRule(unsetHeaderAction, "X-Data", "", NoWhen)
UnsetLocation == HeaderRule(unsetHeaderAction, headerLocation, "", NoWhen)
BrokenHeaderRule == HeaderRule(setHeaderAction, "X-Kratgo", "true", BrokenRule)

RuleConfigs ==
    { [nocache |-> <<>>,                          headers |-> <<>>],
      [nocache |-> <<>>,                          headers |-> <<SetKratgo, UnsetData>>],
      [nocache |-> <<HostIs("h1")>>,              headers |-> <<>>],
      [nocache |-> <<P2AndRespDataNot1>>,         headers |-> <<>>],
      [nocache |-> <<RespDataIs1, BrokenRule>>,   headers |-> <<>>],
      [nocache |-> <<HostIs("h1"), BrokenRule>>,  headers |-> <<>>],
      [nocache |-> <<RespDataNot1, BrokenRule>>,  headers |-> <<>>],
      [nocache |-> <<>>,                          headers |-> <<BrokenHeaderRule>>],
      [nocache |-> <<>>,                          headers |-> <<UnsetLocation>>] }

PlainRules == [nocache |-> <<>>, headers |-> <<>>]

\* Every rule configuration over one backend, and the plain one over each
\* number of backends.
Configs ==
    { [nocacheRules |-> rc.nocache, headersRules |-> rc.headers, totalBackends |-> 1] :
        rc \in RuleConfigs }
    \cup
    { [nocacheRules |-> PlainRules.nocache, headersRules |-> PlainRules.headers,
       totalBackends |-> n] : n \in 1..MaxBackends }

----------------------------------------------------------------------------
(* Rule evaluation *)

getEvalValue(req, resp, name, key) ==
    CASE name = "host" -> req.host
      [] name = "path" -> req.path
      [] name = "respHeader" -> resp.headers[key]
      [] OTHER -> ""

evalAtom(a, req, resp) ==
    LET v == getEvalValue(req, resp, a.name, a.key)
    IN  IF a.op = "==" THEN v = a.val ELSE v # a.val

evalRule(r, req, resp) ==
    \A i \in 1..Len(r.atoms) : evalAtom(r.atoms[i], req, resp)

RECURSIVE checkIfNoCache(_, _, _)
checkIfNoCache(rules, req, resp) ==
    IF rules = <<>> THEN "false"
    ELSE IF Head(rules).broken THEN "err"
    ELSE IF evalRule(Head(rules), req, resp) THEN "true"
    ELSE checkIfNoCache(Tail(rules), req, resp)

RECURSIVE processHeaderRules(_, _, _)
processHeaderRules(rules, req, resp) ==
    IF rules = <<>> THEN [err |-> FALSE, resp |-> resp]
    ELSE LET r == Head(rules)
         IN  IF r.when.broken THEN [err |-> TRUE, resp |-> resp]
             ELSE IF ~evalRule(r.when, req, resp)
                  THEN processHeaderRules(Tail(rules), req, resp)
             ELSE IF r.action = setHeaderAction
                  THEN processHeaderRules(Tail(rules), req,
                         [resp EXCEPT !.headers = WithHeader(resp.headers, r.name, r.value)])
             ELSE processHeaderRules(Tail(rules), req,
                         [resp EXCEPT !.headers = WithHeader(resp.headers, r.name, "")])

----------------------------------------------------------------------------
(* Cache entries *)

EmptyEntry == <<>>
NoResponse == [path |-> "", body |-> "", headers |-> NoHeaders]

Response(path, body, headers) == [path |-> path, body |-> body, headers |-> headers]

HasResponse(entry, path) == \E i \in 1..Len(entry) : entry[i].path = path

GetResponse(entry, path) ==
    IF HasResponse(entry, path)
    THEN entry[CHOOSE i \in 1..Len(entry) :
                 /\ entry[i].path = path
                 /\ \A j \in 1..(i - 1) : entry[j].path # path]
    ELSE NoResponse

SetResponse(entry, r) ==
    IF HasResponse(entry, r.path)
    THEN LET k == CHOOSE i \in 1..Len(entry) :
                    /\ entry[i].path = r.path
                    /\ \A j \in 1..(i - 1) : entry[j].path # r.path
         IN  [entry EXCEPT ![k] = r]
    ELSE Append(entry, r)

\* Cache.GetBytes: decode the stored blob into the caller's entry; a missing
\* key, or a failing read, leaves the entry as it was.
GetBytes(store, key, entry, getErr) ==
    IF getErr \/ store[key] = EmptyEntry THEN entry ELSE store[key]

\* Cache.SetBytes: encode the entry and upsert it under the key.
SetBytes(store, key, entry, setErr) ==
    IF setErr THEN store ELSE [store EXCEPT ![key] = entry]

----------------------------------------------------------------------------
(* The outbound response of a RequestCtx *)

FreshResponse == [status |-> StatusOK, body |-> "", headers |-> NoHeaders]

\* ctx.Error(msg, 500): the response is reset and carries the message.
ctxError(msg) == [status |-> StatusInternalServerError, body |-> msg, headers |-> NoHeaders]

\* httpClient.copyRespHeaderTo: the header block, status line included.
copyRespHeaderTo(clientResp, ctxResp) ==
    [ctxResp EXCEPT !.status = clientResp.status, !.headers = clientResp.headers]

----------------------------------------------------------------------------
(* Request headers.  Of the request's header block the model keeps the    *)
(* proxy-identifying header.                                              *)

proxyReqHeaderKey == "X-Kratgo-Proxy"
proxyReqHeaderValue == "true"

\* The header block of an inbound request: it has not been through a proxy.
InboundHeaders == [k \in {proxyReqHeaderKey} |-> ""]

\* cloneHeaders(dst, src): dst becomes a copy of src.
cloneHeaders(src) == src

\* A preparation that leaves the proxy header out.
stampNothing(h) == h

\* The proxy header is set while fetchFromBackend prepares the request,
\* before Backend.Do: the inbound request carries it from then on, whatever
\* comes after (TestProxy_fetchFromBackend finds it on ctx.Request.Header in
\* every case), and so does the copy that goes to the backend.
stampProxyHeader(h) == [h EXCEPT ![proxyReqHeaderKey] = proxyReqHeaderValue]

\* httpClient.copyReqHeaderTo: the client's request headers replace dst.
copyReqHeaderTo(clientReqHeaders, dst) == clientReqHeaders

\* The header block of the backend-bound request when Do is invoked.
backendBound(inbound) == cloneHeaders(stampProxyHeader(inbound))

----------------------------------------------------------------------------
(* Backend selection *)

\* A selection that never moves the cursor.
getBackendStuck(cur, n) == [cur |-> cur, backend |-> cur]

\* A cursor that wraps to the second backend instead of the first.
getBackendWrapToOne(cur, n) ==
    IF n = 1 THEN [cur |-> cur, backend |-> 0]
    ELSE LET next == IF cur >= n - 1 THEN 1 ELSE cur + 1
         IN  [cur |-> next, backend |-> next]

\* Proxy.getBackend: the cursor after the call and the index of the backend
\* it returns.
getBackend(cur, n) ==
    IF n = 1 THEN [cur |-> cur, backend |-> 0]
    ELSE LET next == IF cur >= n - 1 THEN 0 ELSE cur + 1
         IN  [cur |-> next, backend |-> next]

----------------------------------------------------------------------------
(* Proxy.saveBackendResponse *)

\* A Response built without the body.
newResponseNoBody(path, resp) == Response(path, "", resp.headers)

\* The Response built from the outbound response: path, body, every header.
newResponse(path, resp) == Response(path, resp.body, resp.headers)

\* A save that adds the Response to whatever the key already holds.
saveBackendResponseAppend(cacheKey, path, resp, entry, store, setErr) ==
    LET e == Append(store[cacheKey], newResponse(path, resp))
    IN  [err   |-> IF setErr THEN "Could not save response in cache" ELSE "",
         store |-> SetBytes(store, cacheKey, e, setErr),
         entry |-> e]

saveBackendResponse(cacheKey, path, resp, entry, store, setErr) ==
    LET e == SetResponse(entry, newResponse(path, resp))
    IN  [err   |-> IF setErr THEN "Could not save response in cache" ELSE "",
         store |-> SetBytes(store, cacheKey, e, setErr),
         entry |-> e]

----------------------------------------------------------------------------
(* Proxy.fetchFromBackend *)

\* A redirect told by its status code instead of its Location header.
isRedirectByStatus(clientResp) == clientResp.status \in 300..399

\* A redirect: the client's response carries a non-empty Location header.
isRedirect(clientResp) == clientResp.headers[headerLocation] # ""

\* Admission that forgets the status code.
skipCacheAnyStatus(noCache, status) == noCache = "true"

\* The response is kept out of the cache.
skipCache(noCache, status) == noCache = "true" \/ status # StatusOK

\* The outbound status and body are the backend's.
setStatusAndBody(ctxResp, clientResp) ==
    [ctxResp EXCEPT !.status = clientResp.status, !.body = clientResp.body]

fetchFromBackend(p, cacheKey, path, req, ctxResp, entry, store, cur, reply, setErr) ==
    LET b    == getBackend(cur, p.totalBackends)
        prepared == stampProxyHeader(InboundHeaders)
        sent == backendBound(InboundHeaders)
        base == [err |-> "", resp |-> ctxResp, store |-> store, cur |-> b.cur,
                 backend |-> b.backend, hdrRules |-> "skipped",
                 respNoCache |-> "skipped", saved |-> "no",
                 sentHeaders |-> sent, reqHeaders |-> prepared]
        back == copyReqHeaderTo(sent, prepared)
    IN
    IF reply.err THEN [base EXCEPT !.err = "Could not fetch response from backend"]
    ELSE
    LET hr == processHeaderRules(p.headersRules, req,
                [status |-> reply.status, body |-> reply.body, headers |-> reply.headers])
    IN
    IF hr.err THEN [base EXCEPT !.err = "Could not process headers rules", !.hdrRules = "err"]
    ELSE
    LET clientResp == hr.resp
        copied     == copyRespHeaderTo(clientResp, ctxResp)
    IN
    IF isRedirect(clientResp)
    THEN [base EXCEPT !.resp = copied, !.hdrRules = "ok", !.reqHeaders = back]
    ELSE
    LET noCache == checkIfNoCache(p.nocacheRules, req, clientResp)
    IN
    IF noCache = "err"
    THEN [base EXCEPT !.err = "Invalid nocache rule", !.resp = copied,
                      !.hdrRules = "ok", !.respNoCache = "err", !.reqHeaders = back]
    ELSE
    LET out == setStatusAndBody(copied, clientResp)
    IN
    IF skipCache(noCache, out.status)
    THEN [base EXCEPT !.resp = out, !.hdrRules = "ok", !.respNoCache = noCache,
                      !.reqHeaders = back]
    ELSE
    LET sv == saveBackendResponse(cacheKey, path, out, entry, store, setErr)
    IN  [base EXCEPT !.err = sv.err, !.resp = out, !.store = sv.store,
                     !.hdrRules = "ok", !.respNoCache = noCache, !.reqHeaders = back,
                     !.saved = IF sv.err = "" THEN "ok" ELSE "failed"]

----------------------------------------------------------------------------
(* Proxy.handler *)

\* A lookup whatever the request-phase evaluation said.
lookupCacheAlways(reqNoCache) == TRUE

\* The cache is consulted when the request-phase evaluation neither failed
\* nor fired.
lookupCache(reqNoCache) == reqNoCache = "false"

\* A hit on any stored Response of the host.
cacheHitAnyPath(entry, path) == entry # EmptyEntry

\* A hit: the decoded entry holds a Response for the path.
cacheHit(entry, path) == HasResponse(entry, path)

\* A hit that has already moved the round-robin cursor.
cursorAfterHitAdvanced(p, cur) == getBackend(cur, p.totalBackends).cur

\* A hit returns before any backend is selected.
cursorAfterHit(p, cur) == cur

\* A hit: the body and the headers of the stored Response go out.
serveFromCache(ctxResp, r) ==
    [ctxResp EXCEPT !.body = r.body,
                    !.headers = [k \in HeaderKeys |->
                                    IF r.headers[k] # "" THEN r.headers[k]
                                    ELSE ctxResp.headers[k]]]

\* A handler that lets a failed fetch's response through.
afterFetchIgnoreErr(f) == f.resp

\* What the handler does with fetchFromBackend's result.
afterFetch(f) == IF f.err # "" THEN ctxError(f.err) ELSE f.resp

\* The first half of Proxy.handler: the request-phase rules and the lookup
\* into the bundle's entry.
lookup(p, store, req, entry, getErr) ==
    LET reqNoCache == checkIfNoCache(p.nocacheRules, req, FreshResponse)
        doGet      == reqNoCache # "err" /\ lookupCache(reqNoCache)
        decoded    == IF doGet THEN GetBytes(store, req.host, entry, getErr) ELSE entry
    IN  [entry |-> decoded,
         get   |-> IF ~doGet THEN "no" ELSE IF getErr THEN "failed" ELSE "ok",
         hit   |-> doGet /\ ~getErr /\ cacheHit(decoded, req.path)]

\* The response the handler holds when it calls fetchFromBackend.
respBeforeFetch(p, req, get) ==
    IF checkIfNoCache(p.nocacheRules, req, FreshResponse) = "err"
    THEN ctxError("Invalid nocache rule")
    ELSE IF get = "failed" THEN ctxError("Could not get data from cache")
    ELSE FreshResponse

\* Proxy.handler from the outcome l of its lookup on: the hit is answered
\* from the decoded entry, anything else goes through fetchFromBackend with
\* the entry the lookup left in the bundle.
handlerRest(p, store, cur, req, reply, l, setErr) ==
    LET path       == req.path
        cacheKey   == req.host
        reqNoCache == checkIfNoCache(p.nocacheRules, req, FreshResponse)
        resp1      == respBeforeFetch(p, req, l.get)
        obs        == [hit |-> FALSE, called |-> FALSE, backend |-> -1,
                       reqNoCache |-> reqNoCache, respNoCache |-> "skipped",
                       hdrRules |-> "skipped", get |-> l.get,
                       reply |-> reply, saved |-> "no", err |-> "", releases |-> 1,
                       sentHeaders |-> InboundHeaders, reqHeaders |-> InboundHeaders]
    IN
    IF l.hit
    THEN [resp  |-> serveFromCache(resp1, GetResponse(l.entry, path)),
          store |-> store,
          cur   |-> cursorAfterHit(p, cur),
          obs   |-> [obs EXCEPT !.hit = TRUE, !.reply = NoReply]]
    ELSE
    LET f == fetchFromBackend(p, cacheKey, path, req, resp1, l.entry, store, cur, reply, setErr)
    IN  [resp  |-> afterFetch(f),
         store |-> f.store,
         cur   |-> f.cur,
         obs   |-> [obs EXCEPT !.called = TRUE, !.backend = f.backend,
                               !.respNoCache = f.respNoCache, !.hdrRules = f.hdrRules,
                               !.saved = f.saved, !.err = f.err,
                               !.sentHeaders = f.sentHeaders,
                               !.reqHeaders = f.reqHeaders]]

----------------------------------------------------------------------------
(* Rule compilation.  A rule's text is a sequence of words: $(...) tokens *)
(* ("var"), the identifiers that replace them ("id"), operators and       *)
(* literals, and fragments no expression can hold ("junk").               *)

Word(kind, name, sub, nn) == [kind |-> kind, name |-> name, sub |-> sub, nn |-> nn]

ScalarNames == {"method", "host", "path", "contentType", "statusCode"}
KeyedNames == {"req.header", "resp.header", "cookie"}

EvalVar(name) ==
    CASE name = "method" -> "V_method"
      [] name = "host" -> "V_host"
      [] name = "path" -> "V_path"
      [] name = "contentType" -> "V_contentType"
      [] name = "statusCode" -> "V_statusCode"
      [] name = "req.header" -> "V_reqHeader"
      [] name = "resp.header" -> "V_respHeader"
      [] name = "cookie" -> "V_cookie"
      [] OTHER -> ""

\* config.ConfigVarRegex.MatchString: the text holds a $(...) token.
ConfigVarRegexMatch(rule) == \E i \in 1..Len(rule) : rule[i].kind = "var"

NoKeys == [configKey |-> Word("", "", "", 0), evalKey |-> Word("", "", "", 0), evalSubKey |-> ""]

\* config.ParseConfigKeys on the first token of the text: the token, the
\* identifier that stands for it (numbered nn for a keyed name), its sub-key;
\* nothing for a name that is not recognised or a sub-key out of place.
ParseConfigKeys(rule, nn) ==
    IF ~ConfigVarRegexMatch(rule) THEN NoKeys
    ELSE LET w == rule[CHOOSE i \in 1..Len(rule) :
                        /\ rule[i].kind = "var"
                        /\ \A j \in 1..(i - 1) : rule[j].kind # "var"]
         IN  IF w.name \in ScalarNames /\ w.sub = ""
             THEN [configKey |-> w, evalKey |-> Word("id", EvalVar(w.name), "", 0),
                   evalSubKey |-> ""]
             ELSE IF w.name \in KeyedNames /\ w.sub # ""
             THEN [configKey |-> w, evalKey |-> Word("id", EvalVar(w.name), "", nn),
                   evalSubKey |-> w.sub]
             ELSE NoKeys

\* strings.Replace(rule, old, new, -1): every occurrence is replaced.
Replace(rule, old, new) ==
    [i \in 1..Len(rule) |-> IF rule[i] = old THEN new ELSE rule[i]]

\* govaluate.NewEvaluableExpression accepts the text.
Parses(rule) == \A i \in 1..Len(rule) : rule[i].kind # "junk"

ruleParam(evalKey, evalSubKey) == [name |-> evalKey.name, nn |-> evalKey.nn, subKey |-> evalSubKey]

\* Proxy.newEvaluableExpression, from the state of its loop.
RECURSIVE substituteTokens(_, _)
substituteTokens(rule, params) ==
    IF ~ConfigVarRegexMatch(rule)
    THEN [err |-> ~Parses(rule), expr |-> rule, params |-> params]
    ELSE LET k == ParseConfigKeys(rule, Len(params) + 1)
         IN  IF k = NoKeys THEN [err |-> TRUE, expr |-> <<>>, params |-> <<>>]
             ELSE substituteTokens(Replace(rule, k.configKey, k.evalKey),
                                   Append(params, ruleParam(k.evalKey, k.evalSubKey)))

newEvaluableExpression(rule) == substituteTokens(rule, <<>>)

\* Proxy.parseNocacheRules over the rules still to compile.
RECURSIVE parseNocacheRules(_, _)
parseNocacheRules(sources, rules) ==
    IF sources = <<>> THEN [err |-> FALSE, rules |-> rules]
    ELSE LET c == newEvaluableExpression(Head(sources))
         IN  IF c.err THEN [err |-> TRUE, rules |-> rules]
             ELSE parseNocacheRules(Tail(sources),
                                    Append(rules, [expr |-> c.expr, params |-> c.params]))

\* The value of a set rule: a reference to evaluate, or the literal.
headerValue(action, value) ==
    IF action # setHeaderAction THEN [value |-> <<>>, subKey |-> ""]
    ELSE LET k == ParseConfigKeys(value, 1)
         IN  IF k # NoKeys THEN [value |-> <<k.evalKey>>, subKey |-> k.evalSubKey]
             ELSE [value |-> value, subKey |-> ""]

\* Proxy.parseHeadersRules over the headers still to compile.
RECURSIVE parseHeadersRules(_, _, _)
parseHeadersRules(action, headers, rules) ==
    IF headers = <<>> THEN [err |-> FALSE, rules |-> rules]
    ELSE LET h == Head(headers)
             c == IF h.when # <<>> THEN newEvaluableExpression(h.when)
                  ELSE [err |-> FALSE, expr |-> <<>>, params |-> <<>>]
         IN  IF c.err THEN [err |-> TRUE, rules |-> rules]
             ELSE parseHeadersRules(action, Tail(headers),
                    Append(rules, [action |-> action, name |-> h.name,
                                   value |-> headerValue(action, h.value),
                                   expr |-> c.expr, params |-> c.params]))

----------------------------------------------------------------------------
(* New *)

NoProxy == [backends |-> <<>>, totalBackends |-> -1, currentBackend |-> -1,
            nocacheRules |-> <<>>, headersRules |-> <<>>]

\* A clean frequency only refused when negative.
cleanFrequencyNegative(cleanFrequency) == cleanFrequency < 0

\* The cache's clean frequency New refuses.
cleanFrequencyInvalid(cleanFrequency) == cleanFrequency = 0

\* New(cfg): the error and the proxy it returns.
New(c) ==
    LET fail == [err |-> TRUE, p |-> NoProxy] IN
    IF cleanFrequencyInvalid(c.cleanFrequency) THEN fail
    ELSE
    LET nc == parseNocacheRules(c.nocache, <<>>) IN
    IF nc.err THEN fail
    ELSE
    LET hs == parseHeadersRules(setHeaderAction, c.set, <<>>) IN
    IF hs.err THEN fail
    ELSE
    LET hu == parseHeadersRules(unsetHeaderAction, c.unset, hs.rules) IN
    IF hu.err THEN fail
    ELSE [err |-> FALSE,
          p   |-> [backends |-> c.backendsAddrs, totalBackends |-> Len(c.backendsAddrs),
                   currentBackend |-> 0,
                   nocacheRules |-> nc.rules, headersRules |-> hu.rules]]

\* No call of New is under observation.
NoBoot == [state |-> "none", config |-> <<>>, err |-> FALSE, p |-> NoProxy]

----------------------------------------------------------------------------
(* The admin front: Admin.invalidateView *)

StatusBadRequest == 400

\* Entries the queue holds before Add rejects.
QueueCap == 1

\* invalidator.Entry
Entry(host, path, key, value) ==
    [host |-> host, path |-> path, header |-> [key |-> key, value |-> value]]

\* new(Entry)
NewEntry == Entry("", "", "", "")

\* The JSON members a body can carry, each with the value the bodies give it.
Members == [host |-> "h1", path |-> "/p1", key |-> "X-Data", value |-> "1"]

\* ctx.PostBody(): invalid JSON, or an object with some of the members.
Bodies ==
    {[valid |-> FALSE, members |-> {}]} \cup
    {[valid |-> TRUE, members |-> m] : m \in SUBSET DOMAIN Members}

\* json.Unmarshal(body, entry): the members of the body are set, the other
\* fields of the entry stay as they are.
jsonUnmarshal(body, e) ==
    IF ~body.valid THEN [err |-> "invalid JSON", entry |-> e]
    ELSE LET v(k, old) == IF k \in body.members THEN Members[k] ELSE old
         IN  [err |-> "",
              entry |-> Entry(v("host", e.host), v("path", e.path),
                              v("key", e.header.key), v("value", e.header.value))]

\* invalidator.ReleaseEntry: the entry goes back to the pool, with its fields
\* cleared or as they are.
ReleaseEntry(e) == {NewEntry, e}

\* Invalidator.Add: an entry without host is malformed, a full queue takes
\* no more; otherwise the entry is enqueued.
invalidatorAdd(queue, e) ==
    IF e.host = "" THEN [err |-> "malformed entry", queue |-> queue]
    ELSE IF Len(queue) >= QueueCap THEN [err |-> "queue full", queue |-> queue]
    ELSE [err |-> "", queue |-> Append(queue, e)]

\* An answer that is always OK.
respondOK(err) == [status |-> StatusOK, text |-> "OK"]

\* The answer of invalidateView once Add has returned.
respond(err) ==
    IF err # "" THEN [status |-> StatusBadRequest, text |-> err]
    ELSE [status |-> StatusOK, text |-> "OK"]

\* Admin.invalidateView on a body, with the entry AcquireEntry returned.
\* released is the entry it passes to ReleaseEntry, on every path.
invalidateView(body, acquired, queue) ==
    LET u == jsonUnmarshal(body, acquired) IN
    IF u.err # ""
    THEN [status |-> StatusInternalServerError, text |-> u.err, queue |-> queue,
          released |-> u.entry, added |-> FALSE, handed |-> NewEntry]
    ELSE LET a == invalidatorAdd(queue, u.entry)
             r == respond(a.err)
         IN  [status |-> r.status, text |-> r.text, queue |-> a.queue,
              released |-> u.entry, added |-> TRUE, handed |-> u.entry]

NoAdmin == [body |-> [valid |-> FALSE, members |-> {}], status |-> 0, text |-> "",
            added |-> FALSE, handed |-> NewEntry]

----------------------------------------------------------------------------
(* The invalidator *)

byHost(e) == e.host # "" /\ e.path = "" /\ e.header.key = ""

\* Cache.Del
Del(store, key) == [store EXCEPT ![key] = EmptyEntry]

\* The entry without the Response of the path.
RECURSIVE removePath(_, _)
removePath(entry, path) ==
    IF entry = <<>> THEN <<>>
    ELSE IF Head(entry).path = path THEN removePath(Tail(entry), path)
    ELSE <<Head(entry)>> \o removePath(Tail(entry), path)

\* by host only: Cache.Del(host)
invalidateByHost(store, host) == Del(store, host)

\* by path, second half: Del when the reduced entry is empty, else re-Set.
storeBack(store, host, entry) ==
    IF entry = EmptyEntry THEN Del(store, host) ELSE SetBytes(store, host, entry, FALSE)

NoInvLog == [accepted |-> {}, purged |-> {}, fetched |-> {}]

----------------------------------------------------------------------------
(* Request workers and their tool bundles *)

HandlerWorkers == {"w1", "w2"}
Bundles == {"t1", "t2"}

\* A proxyTools as the pool's New makes it.
NewTools == [held |-> FALSE, entry |-> EmptyEntry, params |-> "empty", client |-> "empty"]

\* Proxy.acquireTools: sync.Pool.Get returns a bundle nobody holds.
acquireTools(ts) == {t \in Bundles : ~ts[t].held}

\* A release that resets nothing.
releaseToolsAsIs(pt) == [pt EXCEPT !.held = FALSE]

\* A release that resets client and params and keeps the decoded entry.
releaseToolsKeepEntry(pt) ==
    [held |-> FALSE, entry |-> pt.entry, params |-> "empty", client |-> "empty"]

\* Proxy.releaseTools: client, params and entry are reset, then Put.
releaseTools(pt) ==
    [held |-> FALSE, entry |-> EmptyEntry, params |-> "empty", client |-> "empty"]

NoReq == [host |-> "", path |-> ""]

\* Nothing is on record for any request.
NoKept == [r \in Requests |-> [held |-> FALSE, body |-> "", headers |-> NoHeaders]]
IdleHandler == [pc |-> "idle", req |-> NoReq, pt |-> "", get |-> "no", saved |-> "no",
                reply |-> NoReply]

\* The admin front and the invalidator at rest.
SideOff ==
    /\ chEntries = <<>>
    /\ entryPool = {}
    /\ admin = NoAdmin
    /\ invLog = NoInvLog
    /\ hw = [w \in HandlerWorkers |-> IdleHandler]
    /\ tools = [t \in Bundles |-> NewTools]
    /\ overlapped = FALSE
    /\ kept = NoKept

----------------------------------------------------------------------------
(* The state machine *)

NoRun == [hit |-> FALSE, called |-> FALSE, backend |-> -1,
          reqNoCache |-> "skipped", respNoCache |-> "skipped", hdrRules |-> "skipped",
          get |-> "no", reply |-> NoReply, saved |-> "no", err |-> "", releases |-> 0,
          sentHeaders |-> InboundHeaders, reqHeaders |-> InboundHeaders]

NoCtx == [req |-> [host |-> "", path |-> ""], resp |-> FreshResponse]

\* The observer's window: handler invocations counted (n), those of them
\* forwarded (fwd), the requests each backend received (sent), and the
\* backends returned by the latest totalBackends getBackend calls (picks).
NoWindow == [n |-> 0, fwd |-> 0, sent |-> [b \in 0..(MaxBackends - 1) |-> 0], picks |-> <<>>]

\* Goroutines serving requests, each calling getBackend.
Workers == {"w1", "w2", "w3"}
NoWorker == "none"

Idle == [pc |-> "idle", reg |-> 0]
NoCalls == [w \in Workers |-> Idle]
NoTally == [started |-> 0, done |-> 0, last |-> 0, inOrder |-> TRUE,
            sel |-> [b \in 0..(MaxBackends - 1) |-> 0]]

Init ==
    /\ mu = NoWorker
    /\ calls = NoCalls
    /\ tally = NoTally
    /\ boot = NoBoot
    /\ SideOff
    /\ cfg \in Configs
    /\ cache = [h \in Hosts |-> EmptyEntry]
    /\ currentBackend = 0
    /\ ctx = NoCtx
    /\ run = NoRun
    /\ toolsOut = 0
    /\ window = NoWindow

\* What the steps of Proxy.handler leave alone here.
keptFrame == <<window, mu, calls, tally, boot, chEntries, entryPool, admin, invLog, tools>>
observedFrame == <<mu, calls, tally, boot, chEntries, entryPool, admin, invLog, tools, kept>>
handlerFrame == <<window, observedFrame>>

\* A worker past its lookup without a hit: what it read, no backend yet.
Missed(req, l) ==
    [pc |-> "missed", req |-> req, pt |-> "", get |-> l.get, saved |-> "no",
     reply |-> NoReply, entry |-> l.entry, cur |-> -1]

\* Proxy.handler up to the cache read: a bundle is acquired, the no-cache
\* rules are evaluated against the request and the host's entry is read.  On
\* a hit the stored Response goes out, the bundle is released and the
\* handler returns (ctx and run describe the invocation); otherwise the
\* worker goes on to fetchFromBackend with what it has read.
Arrive(w, req, getErr) ==
    /\ hw[w].pc = "idle"
    /\ overlapped' = (overlapped \/ \E o \in HandlerWorkers : hw[o].pc # "idle")
    /\ LET l == lookup(cfg, cache, req, EmptyEntry, getErr)
       IN  IF l.hit
           THEN \E res \in {handlerRest(cfg, cache, currentBackend, req, NoReply, l, FALSE)} :
                   /\ currentBackend' = res.cur
                   /\ ctx' = [req |-> req, resp |-> res.resp]
                   /\ run' = res.obs
                   /\ toolsOut' = toolsOut + 1 - res.obs.releases
                   /\ hw' = hw
           ELSE /\ hw' = [hw EXCEPT ![w] = Missed(req, l)]
                /\ toolsOut' = toolsOut + 1
                /\ ctx' = NoCtx
                /\ run' = NoRun
                /\ UNCHANGED currentBackend
    /\ UNCHANGED <<cfg, cache>>

\* getBackend with several backends: the cursor moves inside the critical
\* section of the mutex; the worker then waits for the backend it selected.
\* cur is the cursor getBackend found.
Select(w) ==
    /\ cfg.totalBackends > 1
    /\ hw[w].pc = "missed"
    /\ hw' = [hw EXCEPT ![w].pc = "selected", ![w].cur = currentBackend]
    /\ currentBackend' = getBackend(currentBackend, cfg.totalBackends).cur
    /\ ctx' = NoCtx
    /\ run' = NoRun
    /\ UNCHANGED <<cfg, cache, toolsOut, overlapped>>

\* Do returns with the backend's reply, or with an error.  With a single
\* backend getBackend takes no lock and returns backends[0] on the way.
Forward(w, reply) ==
    /\ IF cfg.totalBackends > 1
       THEN /\ hw[w].pc = "selected"
            /\ hw' = [hw EXCEPT ![w].pc = "answered", ![w].reply = reply]
            /\ UNCHANGED currentBackend
       ELSE /\ hw[w].pc = "missed"
            /\ hw' = [hw EXCEPT ![w].pc = "answered", ![w].reply = reply,
                                ![w].cur = currentBackend]
            /\ currentBackend' = getBackend(currentBackend, cfg.totalBackends).cur
    /\ ctx' = NoCtx
    /\ run' = NoRun
    /\ UNCHANGED <<cfg, cache, toolsOut, overlapped>>

\* The rest of fetchFromBackend and of the handler: the header rules, the
\* no-cache rules against the response, the write of the entry the worker
\* read with the new Response in it, the response to the client, the
\* release of the bundle.  ctx and run describe the invocation.
Return(w, setErr) ==
    /\ hw[w].pc = "answered"
    /\ LET l == [entry |-> hw[w].entry, get |-> hw[w].get, hit |-> FALSE]
       IN  \E res \in {handlerRest(cfg, cache, hw[w].cur, hw[w].req, hw[w].reply, l, setErr)} :
              /\ cache' = res.store
              /\ ctx' = [req |-> hw[w].req, resp |-> res.resp]
              /\ run' = res.obs
              /\ toolsOut' = toolsOut + 1 - res.obs.releases - 1
    /\ hw' = [hw EXCEPT ![w] = IdleHandler]
    /\ UNCHANGED <<cfg, currentBackend, overlapped>>

\* The cache store drops a host key (TTL expiry or size eviction), whatever
\* the requests in progress hold.  ctx and run describe no invocation
\* afterwards.
Evict(h) ==
    /\ cache[h] # EmptyEntry
    /\ cache' = [cache EXCEPT ![h] = EmptyEntry]
    /\ ctx' = NoCtx
    /\ run' = NoRun
    /\ UNCHANGED <<cfg, currentBackend, toolsOut, hw, overlapped>>

\* Two clients.  The first asks for both paths of h1 and one of h2, gets any
\* reply and meets cache faults; the second asks for either path of h1, gets
\* a 200 without headers and meets no cache fault.
FirstRequests == Requests \ {[host |-> "h2", path |-> "/p2"]}
OtherRequests == {r \in Requests : r.host = "h1"}
OtherReplies == {r \in Replies : ~r.err /\ r.status = StatusOK /\ r.headers = NoHeaders}

\* The requests, replies and cache faults of each worker.
RequestsOf(w) == IF w = "w1" THEN FirstRequests ELSE OtherRequests
RepliesOf(w) == IF w = "w1" THEN Replies ELSE OtherReplies
FaultsOf(w) == IF w = "w1" THEN BOOLEAN ELSE {FALSE}

Next ==
    \/ \E w \in HandlerWorkers : \E req \in RequestsOf(w), getErr \in FaultsOf(w) :
          Arrive(w, req, getErr) /\ UNCHANGED handlerFrame
    \/ \E w \in HandlerWorkers : Select(w) /\ UNCHANGED handlerFrame
    \/ \E w \in HandlerWorkers : \E reply \in RepliesOf(w) :
          Forward(w, reply) /\ UNCHANGED handlerFrame
    \/ \E w \in HandlerWorkers : \E setErr \in FaultsOf(w) :
          Return(w, setErr) /\ UNCHANGED handlerFrame
    \/ \E h \in Hosts : Evict(h) /\ UNCHANGED handlerFrame

Spec == Init /\ [][Next]_vars

----------------------------------------------------------------------------
(* The handler with a record of what was stored: no cache fault.  For each *)
(* request the observer keeps the response of the latest invocation that   *)
(* no no-cache rule matched and that stored it; an eviction of the host's  *)
(* key clears the record of the host.                                      *)

\* The invocation that returns in the step stored its backend's 200 and no
\* no-cache rule matched, on the request or on the response.
StoredUnmatched(rn, cx) ==
    /\ rn.saved = "ok"
    /\ rn.reply.status = StatusOK
    /\ rn.reqNoCache = "false"
    /\ checkIfNoCache(cfg.nocacheRules, cx.req, cx.resp) = "false"

\* The handler returns after fetchFromBackend; the observer records what
\* was stored.
KeptReturn(w) ==
    /\ Return(w, FALSE)
    /\ kept' = IF StoredUnmatched(run', ctx')
               THEN [kept EXCEPT ![hw[w].req] = [held |-> TRUE, body |-> ctx'.resp.body,
                                                 headers |-> ctx'.resp.headers]]
               ELSE kept
    /\ UNCHANGED keptFrame

\* The store drops a host key; the observer forgets the host.
KeptEvict(h) ==
    /\ Evict(h)
    /\ kept' = [r \in Requests |-> IF r.host = h THEN NoKept[r] ELSE kept[r]]
    /\ UNCHANGED keptFrame

NextKept ==
    \/ \E w \in HandlerWorkers : \E req \in RequestsOf(w) :
          Arrive(w, req, FALSE) /\ UNCHANGED <<kept, keptFrame>>
    \/ \E w \in HandlerWorkers : Select(w) /\ UNCHANGED <<kept, keptFrame>>
    \/ \E w \in HandlerWorkers : \E reply \in RepliesOf(w) :
          Forward(w, reply) /\ UNCHANGED <<kept, keptFrame>>
    \/ \E w \in HandlerWorkers : KeptReturn(w)
    \/ \E h \in Hosts : KeptEvict(h)

SpecKept == Init /\ [][NextKept]_vars

----------------------------------------------------------------------------
(* Round-robin under observation: one host and path, several backends,    *)
(* no failing backend and no cache fault.  The observer counts, from any  *)
(* point it chooses, the next Rounds * totalBackends handler invocations  *)
(* and the requests each backend receives.                                *)

RRRequests == {r \in Requests : r.host = "h1" /\ r.path = "/p1"}
RRReplies == {r \in Replies : ~r.err /\ r.headers = NoHeaders}
RRConfigs == {c \in Configs : c.nocacheRules = <<>> /\ c.headersRules = <<>>}

LastPicks(picks, n) ==
    IF Len(picks) <= n THEN picks ELSE SubSeq(picks, Len(picks) - n + 1, Len(picks))

\* The window after an invocation that did obs, over n backends.
Observe(w, obs, n) ==
    LET full    == Rounds * n
        counted == obs.called /\ w.fwd < full
    IN  [n     |-> IF w.n <= full THEN w.n + 1 ELSE w.n,
         fwd   |-> IF counted THEN w.fwd + 1 ELSE w.fwd,
         sent  |-> IF counted THEN [w.sent EXCEPT ![obs.backend] = @ + 1] ELSE w.sent,
         picks |-> IF obs.called THEN LastPicks(Append(w.picks, obs.backend), n)
                   ELSE w.picks]

InitRR ==
    /\ mu = NoWorker
    /\ calls = NoCalls
    /\ tally = NoTally
    /\ boot = NoBoot
    /\ SideOff
    /\ cfg \in RRConfigs
    /\ cache = [h \in Hosts |-> EmptyEntry]
    /\ currentBackend = 0
    /\ ctx = NoCtx
    /\ run = NoRun
    /\ toolsOut = 0
    /\ window = NoWindow

\* The steps of the handler under the observer.  An invocation is counted
\* when it is answered from the cache or when getBackend has selected its
\* backend, which is when the backend receives the request.
ObservedArrive(w, req) ==
    /\ Arrive(w, req, FALSE)
    /\ window' = IF run'.hit THEN Observe(window, run', cfg.totalBackends) ELSE window
    /\ UNCHANGED observedFrame

ObservedSelect(w) ==
    /\ Select(w)
    /\ window' = Observe(window,
                         [called  |-> TRUE,
                          backend |-> getBackend(currentBackend, cfg.totalBackends).backend],
                         cfg.totalBackends)
    /\ UNCHANGED observedFrame

ObservedForward(w, reply) ==
    /\ Forward(w, reply)
    /\ window' = IF cfg.totalBackends > 1 THEN window
                 ELSE Observe(window,
                              [called  |-> TRUE,
                               backend |-> getBackend(currentBackend, cfg.totalBackends).backend],
                              cfg.totalBackends)
    /\ UNCHANGED observedFrame

ObservedReturn(w) == Return(w, FALSE) /\ UNCHANGED handlerFrame

ObservedEvict(h) == Evict(h) /\ UNCHANGED handlerFrame

\* The observer starts a new count; the latest selections stay in view.
StartWindow ==
    /\ window.n > 0
    /\ window' = [NoWindow EXCEPT !.picks = window.picks]
    /\ UNCHANGED <<cfg, cache, currentBackend, ctx, run, toolsOut>>
    /\ UNCHANGED getBackendVars

NextRR ==
    \/ \E w \in HandlerWorkers, req \in RRRequests : ObservedArrive(w, req)
    \/ \E w \in HandlerWorkers : ObservedSelect(w)
    \/ \E w \in HandlerWorkers, reply \in RRReplies : ObservedForward(w, reply)
    \/ \E w \in HandlerWorkers : ObservedReturn(w)
    \/ \E h \in Hosts : ObservedEvict(h)
    \/ StartWindow

SpecRR == InitRR /\ [][NextRR]_vars

----------------------------------------------------------------------------
(* Proxy.getBackend called by concurrent goroutines: each statement of    *)
(* the function is a step.                                                *)

\* A mutex anyone can take.
mutexAlwaysFree(m) == TRUE

\* p.mu.Lock() returns once no goroutine holds the mutex.
mutexFree(m) == m = NoWorker

\* The selection is counted, in the order of the mutex.
Selected(t, b, n) ==
    [t EXCEPT !.sel[b] = @ + 1, !.last = b,
              !.inOrder = @ /\ b = (t.last + 1) % n]

InitConc ==
    /\ cfg \in RRConfigs
    /\ cache = [h \in Hosts |-> EmptyEntry]
    /\ currentBackend = 0
    /\ ctx = NoCtx
    /\ run = NoRun
    /\ toolsOut = 0
    /\ window = NoWindow
    /\ mu = NoWorker
    /\ calls = NoCalls
    /\ tally = NoTally
    /\ boot = NoBoot
    /\ SideOff

\* One backend: backends[0] is returned without the mutex.
Single(w) ==
    /\ calls[w].pc = "idle"
    /\ tally.started < MaxCalls
    /\ cfg.totalBackends = 1
    /\ tally' = [tally EXCEPT !.started = @ + 1, !.done = @ + 1, !.sel[0] = @ + 1]
    /\ UNCHANGED <<cfg, currentBackend, mu, calls>> /\ UNCHANGED handlerVars

\* Several backends: the call goes for the mutex.
Enter(w) ==
    /\ calls[w].pc = "idle"
    /\ tally.started < MaxCalls
    /\ cfg.totalBackends # 1
    /\ calls' = [calls EXCEPT ![w].pc = "lock"]
    /\ tally' = [tally EXCEPT !.started = @ + 1]
    /\ UNCHANGED <<cfg, currentBackend, mu>> /\ UNCHANGED handlerVars

Lock(w) ==
    /\ calls[w].pc = "lock"
    /\ mutexFree(mu)
    /\ mu' = w
    /\ calls' = [calls EXCEPT ![w].pc = "test"]
    /\ UNCHANGED <<cfg, currentBackend, tally>> /\ UNCHANGED handlerVars

\* The cursor is read for the comparison and the increment.
Test(w) ==
    /\ calls[w].pc = "test"
    /\ calls' = [calls EXCEPT ![w] = [pc |-> "store", reg |-> currentBackend]]
    /\ UNCHANGED <<cfg, currentBackend, mu, tally>> /\ UNCHANGED handlerVars

\* The cursor is written: 0 past the last backend, one more otherwise.
Store(w) ==
    /\ calls[w].pc = "store"
    /\ currentBackend' = getBackend(calls[w].reg, cfg.totalBackends).cur
    /\ calls' = [calls EXCEPT ![w].pc = "read"]
    /\ UNCHANGED <<cfg, mu, tally>> /\ UNCHANGED handlerVars

\* backend := p.backends[p.currentBackend]
Read(w) ==
    /\ calls[w].pc = "read"
    /\ calls' = [calls EXCEPT ![w] = [pc |-> "unlock", reg |-> currentBackend]]
    /\ tally' = Selected(tally, currentBackend, cfg.totalBackends)
    /\ UNCHANGED <<cfg, currentBackend, mu>> /\ UNCHANGED handlerVars

Unlock(w) ==
    /\ calls[w].pc = "unlock"
    /\ mu' = NoWorker
    /\ calls' = [calls EXCEPT ![w] = Idle]
    /\ tally' = [tally EXCEPT !.done = @ + 1]
    /\ UNCHANGED <<cfg, currentBackend>> /\ UNCHANGED handlerVars

NextConc ==
    \E w \in Workers :
        \/ Single(w)
        \/ Enter(w)
        \/ Lock(w)
        \/ Test(w)
        \/ Store(w)
        \/ Read(w)
        \/ Unlock(w)

SpecConc == InitConc /\ [][NextConc]_vars

----------------------------------------------------------------------------
(* New called on a configuration *)

Var(name, sub) == Word("var", name, sub, 0)
Op(o) == Word("op", o, "", 0)
Lit(v) == Word("lit", v, "", 0)

HostIsSource == <<Var("host", ""), Op("=="), Lit("'h1'")>>
RespDataIs1Source == <<Var("resp.header", "X-Data"), Op("=="), Lit("'1'")>>
FakeSource == <<Var("fake", ""), Op("=="), Lit("'h1'")>>
JunkSource == <<Var("host", ""), Word("junk", "/()", "", 0)>>

\* One request header referenced twice in a rule.
TwiceSource == <<Var("req.header", "X-Data"), Op("=="), Var("req.header", "X-Data")>>

RuleSources == {HostIsSource, RespDataIs1Source, FakeSource, JunkSource, TwiceSource}
NoWhenSource == <<>>

\* config.Header entries: a literal value or a request header reference.
HeaderSources ==
    { [name |-> "X-Kratgo", value |-> <<Lit("true")>>, when |-> w] :
        w \in {NoWhenSource, RespDataIs1Source, FakeSource} }
    \cup
    { [name |-> "X-Kratgo", value |-> <<Var("req.header", "X-Data")>>, when |-> JunkSource] }

UpTo2(S) == {<<>>} \cup {<<a>> : a \in S} \cup {<<a, b>> : a \in S, b \in S}
UpTo1(S) == {<<>>} \cup {<<a>> : a \in S}

BackendsAddrs(n) == [i \in 1..n |-> i]

NewConfigs ==
    [ cleanFrequency : {0, 1},
      backendsAddrs  : {BackendsAddrs(n) : n \in 0..MaxBackends},
      nocache        : UpTo2(RuleSources),
      set            : UpTo1(HeaderSources),
      unset          : UpTo1(HeaderSources) ]

InitNew ==
    /\ boot \in {[NoBoot EXCEPT !.state = "given", !.config = c] : c \in NewConfigs}
    /\ cfg \in {c \in RRConfigs : c.totalBackends = 1}
    /\ cache = [h \in Hosts |-> EmptyEntry]
    /\ currentBackend = 0
    /\ ctx = NoCtx
    /\ run = NoRun
    /\ toolsOut = 0
    /\ window = NoWindow
    /\ mu = NoWorker
    /\ calls = NoCalls
    /\ tally = NoTally
    /\ SideOff

CallNew ==
    /\ boot.state = "given"
    /\ \E res \in {New(boot.config)} :
          boot' = [boot EXCEPT !.state = "returned", !.err = res.err, !.p = res.p]
    /\ UNCHANGED <<cfg, cache, currentBackend, ctx, run, toolsOut, window, mu, calls, tally>>
    /\ UNCHANGED sideVars

NextNew == CallNew

SpecNew == InitNew /\ [][NextNew]_vars

----------------------------------------------------------------------------
(* Admin requests against the queue *)

proxyVars == <<cfg, cache, currentBackend, ctx, run, toolsOut, window, mu, calls, tally, boot>>

InitAdmin ==
    /\ Init
    /\ cfg.totalBackends = 1 /\ cfg.nocacheRules = <<>> /\ cfg.headersRules = <<>>

\* One POST through invalidateView.  AcquireEntry returns an entry of the
\* pool or, as sync.Pool may at any time, a new one; the pool keeps the
\* entry released last.
AdminRequest(body) ==
    \E acquired \in entryPool \cup {NewEntry} :
        LET res == invalidateView(body, acquired, chEntries)
        IN  /\ chEntries' = res.queue
            /\ \E back \in ReleaseEntry(res.released) : entryPool' = {back}
            /\ admin' = [body |-> body, status |-> res.status, text |-> res.text,
                         added |-> res.added, handed |-> res.handed]
            /\ UNCHANGED <<proxyVars, invLog, hw, tools, overlapped, kept>>

\* A worker takes the entry at the head of the queue.
Receive ==
    /\ chEntries # <<>>
    /\ chEntries' = Tail(chEntries)
    /\ admin' = NoAdmin
    /\ UNCHANGED <<entryPool, proxyVars, invLog, hw, tools, overlapped, kept>>

NextAdmin ==
    \/ \E body \in Bodies : AdminRequest(body)
    \/ Receive

SpecAdmin == InitAdmin /\ [][NextAdmin]_vars

----------------------------------------------------------------------------
(* By-host invalidations beside the request handler *)

\* The entries the admin front hands to Add: by host.
InvEntries == {Entry(h, "", "", "") : h \in Hosts}

InvRequests == {r \in Requests : r.host = "h1"}
InvReplies == {r \in Replies : ~r.err /\ r.status = StatusOK /\ r.headers = NoHeaders}

invFrame == <<window, mu, calls, tally, boot, entryPool, admin, tools, kept>>

InitInv ==
    /\ Init
    /\ cfg.totalBackends = 1 /\ cfg.nocacheRules = <<>> /\ cfg.headersRules = <<>>

\* invLog.accepted without a host: a request for it has arrived or has
\* reached a backend since its entry was accepted.
Since(host) == [invLog EXCEPT !.accepted = @ \ {host}]

\* Invalidator.Add accepts a by-host entry.
InvAdd(e) ==
    \E a \in {invalidatorAdd(chEntries, e)} :
        /\ a.err = ""
        /\ chEntries' = a.queue
        /\ invLog' = [invLog EXCEPT !.accepted = @ \cup {e.host}]
        /\ ctx' = NoCtx
        /\ run' = NoRun
        /\ UNCHANGED <<cfg, cache, currentBackend, toolsOut, hw, overlapped, invFrame>>

\* A worker receives the entry at the head of the queue and deletes the key.
ProcessHost ==
    /\ chEntries # <<>>
    /\ byHost(Head(chEntries))
    /\ chEntries' = Tail(chEntries)
    /\ cache' = invalidateByHost(cache, Head(chEntries).host)
    /\ ctx' = NoCtx
    /\ run' = NoRun
    /\ UNCHANGED <<cfg, currentBackend, toolsOut, hw, overlapped, invLog, invFrame>>

\* The steps of Proxy.handler up to the backend's reply, with the observer's
\* log.
InvArrive(w, req) ==
    /\ Arrive(w, req, FALSE)
    /\ invLog' = Since(req.host)
    /\ UNCHANGED <<chEntries, invFrame>>

InvForward(w, reply) ==
    /\ Forward(w, reply)
    /\ invLog' = Since(hw[w].req.host)
    /\ UNCHANGED <<chEntries, invFrame>>

NextInv ==
    \/ \E e \in InvEntries : InvAdd(e)
    \/ ProcessHost
    \/ \E w \in HandlerWorkers, req \in InvRequests : InvArrive(w, req)
    \/ \E w \in HandlerWorkers, reply \in InvReplies : InvForward(w, reply)
    \/ \E w \in HandlerWorkers :
          Return(w, FALSE) /\ UNCHANGED <<chEntries, invLog, invFrame>>

SpecInv == InitInv /\ [][NextInv]_vars

----------------------------------------------------------------------------
(* Request workers in parallel, and an invalidation *)

ParRequests == {r \in Requests : r.host = "h1" \/ r.path = "/p1"}
ParReplies == {r \in Replies : r.headers = NoHeaders /\ r.status = StatusOK}
ParConfigs ==
    {c \in Configs : /\ c.totalBackends = 1
                      /\ c.headersRules = <<>>
                      /\ c.nocacheRules \in {<<>>, <<HostIs("h1"), BrokenRule>>}}

\* The invalidation requests: by path.
ParPurges == {<<"h1", "/p1">>}

parFrame == <<cfg, ctx, run, toolsOut, window, mu, calls, tally, boot,
              chEntries, entryPool, admin, overlapped, kept>>

InitPar == Init /\ cfg \in ParConfigs

\* handler, line 258: the worker takes a bundle for a request.
AcquireTools(w, req) ==
    /\ hw[w].pc = "idle"
    /\ \E t \in acquireTools(tools) :
          /\ hw' = [hw EXCEPT ![w] = [IdleHandler EXCEPT !.pc = "acquired", !.req = req,
                                                         !.pt = t]]
          /\ tools' = [tools EXCEPT ![t].held = TRUE]
    /\ UNCHANGED <<cache, currentBackend, invLog, parFrame>>

\* handler, lines 263-280: the rules, the lookup, and the answer on a hit.
Lookup(w, getErr) ==
    /\ hw[w].pc = "acquired"
    /\ \E l \in {lookup(cfg, cache, hw[w].req, tools[hw[w].pt].entry, getErr)} :
          /\ hw' = [hw EXCEPT ![w].pc = IF l.hit THEN "served" ELSE "missed",
                               ![w].get = l.get]
          /\ tools' = [tools EXCEPT ![hw[w].pt].entry = l.entry,
                                     ![hw[w].pt].params = "filled"]
    /\ UNCHANGED <<cache, currentBackend, invLog, parFrame>>

\* fetchFromBackend, lines 223-229: the request goes to the selected backend
\* and the worker waits in Do until the reply (or the error) is there.
Do(w, reply) ==
    /\ hw[w].pc = "missed"
    /\ LET req == hw[w].req
            f   == fetchFromBackend(cfg, req.host, req.path, req,
                                    respBeforeFetch(cfg, req, hw[w].get),
                                    tools[hw[w].pt].entry, cache, currentBackend,
                                    reply, FALSE)
        IN  /\ currentBackend' = f.cur
            /\ hw' = [hw EXCEPT ![w].pc = "answered", ![w].reply = reply]
            /\ tools' = [tools EXCEPT ![hw[w].pt].client = "filled"]
            /\ invLog' = IF reply.err THEN invLog
                          ELSE [invLog EXCEPT
                                  !.purged = @ \ {<<req.host, req.path>>},
                                  !.fetched = @ \cup {<<req.host,
                                                        newResponse(req.path, f.resp)>>}]
    /\ UNCHANGED <<cache, parFrame>>

\* fetchFromBackend, lines 231-254, and handler, lines 284-286: the rules on
\* the reply, and the save of the bundle's entry into the store as it is now.
Save(w, setErr) ==
    /\ hw[w].pc = "answered"
    /\ LET req == hw[w].req
            pt  == hw[w].pt
        IN  \E f \in {fetchFromBackend(cfg, req.host, req.path, req,
                                        respBeforeFetch(cfg, req, hw[w].get),
                                        tools[pt].entry, cache, currentBackend,
                                        hw[w].reply, setErr)} :
              /\ cache' = f.store
              /\ hw' = [hw EXCEPT ![w].pc = "fetched", ![w].saved = f.saved,
                                   ![w].reply = NoReply]
              /\ tools' = [tools EXCEPT
                              ![pt].entry = IF f.saved = "no" THEN @
                                            ELSE SetResponse(@, newResponse(req.path, f.resp))]
    /\ UNCHANGED <<currentBackend, invLog, parFrame>>

\* handler, lines 277 and 288: the bundle goes back and the handler returns.
ReleaseTools(w) ==
    /\ hw[w].pc \in {"served", "fetched"}
    /\ hw' = [hw EXCEPT ![w].pc = "idle"]
    /\ tools' = [tools EXCEPT ![hw[w].pt] = releaseTools(@)]
    /\ UNCHANGED <<cache, currentBackend, invLog, parFrame>>

\* An invalidator worker processes a by-path entry for a stored Response.
Purge(h, p) ==
    /\ HasResponse(cache[h], p)
    /\ cache' = storeBack(cache, h, removePath(GetBytes(cache, h, EmptyEntry, FALSE), p))
    /\ invLog' = [invLog EXCEPT !.purged = @ \cup {<<h, p>>}]
    /\ hw' = [w \in HandlerWorkers |-> IF hw[w].pc = "idle" THEN IdleHandler ELSE hw[w]]
    /\ UNCHANGED <<currentBackend, tools, parFrame>>

NextPar ==
    \/ \E w \in HandlerWorkers, req \in ParRequests : AcquireTools(w, req)
    \/ \E w \in HandlerWorkers, getErr \in BOOLEAN : Lookup(w, getErr)
    \/ \E w \in HandlerWorkers, reply \in ParReplies : Do(w, reply)
    \/ \E w \in HandlerWorkers, setErr \in BOOLEAN : Save(w, setErr)
    \/ \E w \in HandlerWorkers : ReleaseTools(w)
    \/ \E hp \in ParPurges : Purge(hp[1], hp[2])

SpecPar == InitPar /\ [][NextPar]_vars

TypeOK ==
    /\ cfg \in Configs
    /\ currentBackend \in 0..(MaxBackends - 1)
    /\ toolsOut \in 0..Cardinality(HandlerWorkers)
    /\ ctx = NoCtx \/ ctx.req \in Requests
    /\ \A h \in Hosts : Len(cache[h]) <= Cardinality(Paths)

----------------------------------------------------------------------------
(* Properties of a handler invocation.  In an action formula, run' and    *)
(* ctx' describe the invocation that has returned in the step; run' =     *)
(* NoRun after any other step.                                            *)

Handled == run # NoRun

\* The step is worker w getting past its cache read without a hit, leaving
\* getBackend, being handed its backend's reply, returning after
\* fetchFromBackend.
Misses(w) == hw[w].pc = "idle" /\ hw'[w].pc = "missed"
Selects(w) == hw[w].pc = "missed" /\ hw'[w].pc \in {"selected", "answered"}
Answered(w) == hw[w].pc \in {"missed", "selected"} /\ hw'[w].pc = "answered"
Returns(w) == hw[w].pc = "answered" /\ hw'[w].pc = "idle"
Forwarded == Handled /\ run.called
BackendAnswered == Forwarded /\ ~run.reply.err

\* The headers of the backend's reply after the header rules.
MutatedHeaders(req, reply) ==
    processHeaderRules(cfg.headersRules, req, reply).resp.headers

\* The step is the arrival of a request for r, up to its cache read, which
\* works: it ends in a hit or in a miss.
ArrivalOf(r) ==
    \/ run'.hit /\ ctx'.req = r
    \/ \E w \in HandlerWorkers : Misses(w) /\ hw'[w].req = r /\ hw'[w].get # "failed"

\* C1 as stated, for the responses that were stored and for runs in which
\* no two invocations overlap: once the 200 backend response of a request
\* that no no-cache rule matches is in the cache, every later identical
\* request is answered from the cache with the body and the post-rule
\* headers of that response, as long as the host's key is not evicted.
C1_MissThenHit_AsStated ==
    [][\A r \in Requests :
          (kept[r].held /\ ~overlapped' /\ ArrivalOf(r)) =>
              /\ run'.hit
              /\ ctx'.resp.body = kept[r].body
              /\ ctx'.resp.headers = kept[r].headers]_vars

\* C2: a request is served from the cache only if the entry stored under its
\* host holds a Response for its path; when the entry it reads exists and
\* holds only other paths, the request goes to a backend.
C2_HitOnlyOnPath ==
    [][/\ run'.hit => HasResponse(cache[ctx'.req.host], ctx'.req.path)
       /\ \A w \in HandlerWorkers :
            /\ Misses(w) =>
                  (hw'[w].get = "ok" =>
                      /\ hw'[w].entry = cache[hw'[w].req.host]
                      /\ ~HasResponse(cache[hw'[w].req.host], hw'[w].req.path))
            /\ (Returns(w) /\ hw[w].entry # EmptyEntry)
                  => (run'.called /\ ~run'.hit /\ ctx'.req = hw[w].req)]_vars

\* A request forwarded after it read an entry of its host that holds only
\* another path, while the other worker waits for its backend.
C2_Witness ==
    /\ Forwarded
    /\ run.saved = "no"
    /\ cache[ctx.req.host] # EmptyEntry
    /\ ~HasResponse(cache[ctx.req.host], ctx.req.path)
    /\ \E w \in HandlerWorkers : hw[w].pc = "missed" /\ hw[w].req.host = ctx.req.host

\* C3: a cache hit invokes no backend, leaves the round-robin cursor where it
\* was and leaves the cache as it was.
C3_HitFrame ==
    [][run'.hit => (/\ ~run'.called
                    /\ run'.backend = -1
                    /\ currentBackend' = currentBackend
                    /\ cache' = cache)]_vars

\* A hit with several backends and a cursor that has moved.
C3_Witness == run.hit /\ cfg.totalBackends > 1 /\ currentBackend > 0

\* The cache changes only by a successful store of the invocation.
WroteIffSaved ==
    /\ (cache' # cache) => run'.saved = "ok"
    /\ (run'.saved # "ok") => cache' = cache

\* C4 as stated: a response is written only when the backend call succeeded,
\* the status is 200 and no no-cache rule fired in either evaluation.
C4_Admission_AsStated ==
    [][Handled' =>
         /\ WroteIffSaved
         /\ run'.saved = "ok" =>
              /\ ~run'.reply.err
              /\ run'.reply.status = StatusOK
              /\ run'.reqNoCache # "true"
              /\ run'.respNoCache = "false"]_vars

\* C4 amended: a response is written only when the backend call succeeded,
\* the status is 200 and no no-cache rule fired in the evaluation against
\* the response; otherwise the cache is left unchanged.
C4_Admission ==
    [][Handled' =>
         /\ WroteIffSaved
         /\ run'.saved = "ok" =>
              /\ ~run'.reply.err
              /\ run'.reply.status = StatusOK
              /\ ctx'.resp.status = StatusOK
              /\ run'.respNoCache = "false"]_vars

\* A response admitted although a rule fired on the request alone.
C4_Witness ==
    /\ run.saved = "ok"
    /\ run.reqNoCache = "true"
    /\ HasResponse(cache[ctx.req.host], ctx.req.path)

\* C5: a request matched by a no-cache rule is never answered from the
\* cache; it is forwarded to a backend.
C5_NoCacheBypasses ==
    [][(Handled' /\ run'.reqNoCache = "true") => (~run'.hit /\ run'.called)]_vars

\* Such a request forwarded although its Response is stored.
C5_Witness ==
    /\ run.reqNoCache = "true"
    /\ run.called
    /\ run.saved = "no"
    /\ HasResponse(cache[ctx.req.host], ctx.req.path)

\* C6 as stated: a backend response carrying a non-empty Location header is
\* never stored; the cache is unchanged by the request.
C6_Redirect_AsStated ==
    [][(BackendAnswered' /\ run'.reply.headers[headerLocation] # "")
         => cache' = cache]_vars

\* C6 amended: a backend response that carries a non-empty Location header
\* once the header rules have run is never stored, whatever its status code
\* and the no-cache rules, which are not evaluated against it.
C6_Redirect ==
    [][(BackendAnswered' /\ run'.hdrRules = "ok"
          /\ MutatedHeaders(ctx'.req, run'.reply)[headerLocation] # "")
         => (/\ cache' = cache
             /\ run'.saved = "no"
             /\ run'.respNoCache = "skipped"
             /\ ctx'.resp.headers[headerLocation] = run'.reply.headers[headerLocation])]_vars

\* A 200 response with a Location header went out and was not stored.
C6_Witness ==
    /\ BackendAnswered
    /\ run.reply.status = StatusOK
    /\ ctx.resp.headers[headerLocation] # ""
    /\ ~HasResponse(cache[ctx.req.host], ctx.req.path)

\* C7 as stated: when the request-phase evaluation of the no-cache rules
\* fails, the request ends there: status 500, no backend invoked, cache
\* unchanged, tools released.
C7_RequestEvalError_AsStated ==
    [][(Handled' /\ run'.reqNoCache = "err")
         => (/\ ctx'.resp.status = StatusInternalServerError
             /\ ~run'.called
             /\ cache' = cache
             /\ run'.releases = 1)]_vars

\* C8: when the header rules or the no-cache evaluation against the
\* response fail, fetchFromBackend returns an error, the answer is 500,
\* nothing is written and nothing is served from the cache.
C8_RuleErrorIs500 ==
    [][(Handled' /\ (run'.hdrRules = "err" \/ run'.respNoCache = "err"))
         => (/\ run'.err # ""
             /\ ctx'.resp.status = StatusInternalServerError
             /\ ctx'.resp.headers = NoHeaders
             /\ cache' = cache
             /\ run'.saved = "no"
             /\ ~run'.hit)]_vars

\* The evaluation against the response failed after the one against the
\* request had fired.
C8_Witness ==
    /\ run.respNoCache = "err"
    /\ run.reqNoCache = "true"
    /\ ctx.resp.status = StatusInternalServerError

\* C9: when the backend's Do fails, the answer is 500, the one backend
\* selected is the only one invoked (the cursor moved one step when it was
\* selected, and does not move again for the request) and the cache is
\* unchanged.
C9_BackendError ==
    [][\A w \in HandlerWorkers :
         /\ Selects(w)
               => (/\ hw'[w].cur = currentBackend
                   /\ currentBackend' = (currentBackend + 1) % cfg.totalBackends
                   /\ cache' = cache)
         /\ (Answered(w) /\ hw'[w].reply.err /\ ~Selects(w))
               => (currentBackend' = currentBackend /\ cache' = cache)
         /\ (Returns(w) /\ hw[w].reply.err)
               => (/\ Forwarded'
                   /\ ctx'.resp.status = StatusInternalServerError
                   /\ run'.backend = (hw[w].cur + 1) % cfg.totalBackends
                   /\ currentBackend' = currentBackend
                   /\ cache' = cache)]_vars

\* A failed Do with several backends, the cursor moved on by the other
\* worker's request since.
C9_Witness ==
    /\ Forwarded
    /\ run.reply.err
    /\ cfg.totalBackends > 1
    /\ run.backend = 1
    /\ currentBackend = 0

\* C10 as stated: when storing a cacheable 200 response fails, the client
\* still receives the backend's status and body, not a 500.
C10_WriteFailure_AsStated ==
    (Handled /\ run.saved = "failed")
       => (/\ ctx.resp.status = run.reply.status
           /\ ctx.resp.body = run.reply.body)

\* C11 as stated: when the cache read fails, the request is forwarded to a
\* backend, and when the backend and every later step succeed the response
\* that goes out carries the backend's status and body, not a 500.
C11_ReadFailureIsMiss_AsStated ==
    (Handled /\ run.get = "failed" /\ run.err = "")
        => /\ run.called
           /\ ~run.reply.err
           /\ ctx.resp.status = run.reply.status
           /\ ctx.resp.body = run.reply.body

----------------------------------------------------------------------------
(* Round-robin (SpecRR) *)

PicksSet == {window.picks[i] : i \in 1..Len(window.picks)}

\* C12: with N > 1 backends, any N consecutive getBackend calls, from the
\* initial cursor or any later one, return each of the N backends exactly
\* once, and two consecutive calls never return the same backend; with one
\* backend every call returns backends[0].
C12_RoundRobinCycle ==
    LET n == cfg.totalBackends
        k == Len(window.picks)
    IN  /\ (n > 1 /\ k = n) => PicksSet = 0..(n - 1)
        /\ (n > 1 /\ k >= 2) => window.picks[k] # window.picks[k - 1]
        /\ n = 1 => PicksSet \subseteq {0}

\* N consecutive calls have been observed over more than one backend, the
\* first of them from the initial cursor, for two requests now both waiting
\* for their backends.
C12_Witness ==
    /\ cfg.totalBackends > 1
    /\ Len(window.picks) = cfg.totalBackends
    /\ window.picks[1] = 1
    /\ \A w \in HandlerWorkers : hw[w].pc = "selected"

\* C13 as stated: with N > 1 backends, none failing, over any 10 * N
\* consecutive handler invocations each backend receives 10 requests, give
\* or take one.
C13_EvenLoad_AsStated ==
    (cfg.totalBackends > 1 /\ window.n = Rounds * cfg.totalBackends)
        => \A b \in 0..(cfg.totalBackends - 1) :
              window.sent[b] \in (Rounds - 1)..(Rounds + 1)

\* C13 amended: with N > 1 backends, none failing, over any 10 * N
\* consecutive handler invocations that are forwarded to a backend (cache
\* hits reach no backend) each backend receives exactly 10 requests.
C13_EvenLoad ==
    (cfg.totalBackends > 1 /\ window.fwd = Rounds * cfg.totalBackends)
        => \A b \in 0..(cfg.totalBackends - 1) : window.sent[b] = Rounds

\* A window of 10 * N forwarded invocations, with cache hits in between.
C13_Witness ==
    /\ cfg.totalBackends > 1
    /\ window.fwd = Rounds * cfg.totalBackends
    /\ window.n > window.fwd
    /\ window.sent[0] = Rounds

----------------------------------------------------------------------------
(* Concurrent selection (SpecConc) *)

\* C14: with N > 1 backends and getBackend called concurrently, the mutex
\* serialises the cursor updates: the cursor stays in 0..N-1, no update is
\* lost (once the mutex is free the cursor has moved once per completed
\* call), the selections in the order of the mutex are the round-robin
\* sequence, and after k * N completed calls each backend has been selected
\* exactly k times, whatever the interleaving.
C14_MutexSerialises ==
    LET n == cfg.totalBackends
    IN  n > 1 =>
          /\ currentBackend \in 0..(n - 1)
          /\ tally.inOrder
          /\ mu = NoWorker =>
                /\ currentBackend = tally.done % n
                /\ tally.done % n = 0 =>
                      \A b \in 0..(n - 1) : tally.sel[b] * n = tally.done

\* A whole cycle has completed while another goroutine waits for the mutex.
C14_Witness ==
    /\ cfg.totalBackends > 1
    /\ tally.done = cfg.totalBackends
    /\ mu # NoWorker
    /\ \E w \in Workers : calls[w].pc = "lock"

----------------------------------------------------------------------------
(* The proxy-identifying request header *)

----------------------------------------------------------------------------
(* What is stored *)

\* C16: for every admitted response, the Response stored for the request's
\* host and path has the headers that went out to the client (the backend's
\* headers after every header rule) and the body that went out.
C16_StoredIsMutated ==
    [][(Handled' /\ run'.saved = "ok") =>
          LET r == GetResponse(cache'[ctx'.req.host], ctx'.req.path)
          IN  /\ HasResponse(cache'[ctx'.req.host], ctx'.req.path)
              /\ r.headers = ctx'.resp.headers
              /\ r.headers = MutatedHeaders(ctx'.req, run'.reply)
              /\ r.body = ctx'.resp.body
              /\ r.body = run'.reply.body]_vars

\* A response was admitted whose headers a header rule had changed.
C16_Witness ==
    /\ Handled
    /\ run.saved = "ok"
    /\ ctx.resp.headers # run.reply.headers
    /\ GetResponse(cache[ctx.req.host], ctx.req.path).headers = ctx.resp.headers

----------------------------------------------------------------------------
(* Pass-through *)

\* C17 as stated: for every forwarded request whose Do and rule evaluations
\* succeed (and whose cache read, if any, worked), the response that goes out carries the backend's status code,
\* its headers (as the header rules left them) and its body, for redirect
\* responses (Location present) as for the others.
C17_PassThrough_AsStated ==
    (BackendAnswered /\ run.err = "" /\ run.get # "failed") =>
        /\ ctx.resp.status = run.reply.status
        /\ ctx.resp.headers = MutatedHeaders(ctx.req, run.reply)
        /\ ctx.resp.body = run.reply.body

----------------------------------------------------------------------------
(* Entries *)

\* The Responses of an entry recorded for a path.
ResponsesFor(entry, path) == {i \in 1..Len(entry) : entry[i].path = path}

OnePerPath ==
    \A h \in Hosts : \A path \in Paths :
        Cardinality(ResponsesFor(cache[h], path)) <= 1

\* A step admits a response for a path its host key already records.
Readmits ==
    /\ Handled'
    /\ run'.saved = "ok"
    /\ HasResponse(cache[ctx'.req.host], ctx'.req.path)

\* C18: in every reachable state the Entry stored under a host key holds at
\* most one Response per path; admitting a response for a path the key
\* already records leaves one record for it, the new one.
C18_PathUnique ==
    /\ []OnePerPath
    /\ [][Readmits =>
            LET e == cache'[ctx'.req.host]
            IN  /\ Cardinality(ResponsesFor(e, ctx'.req.path)) = 1
                /\ GetResponse(e, ctx'.req.path).body = ctx'.resp.body]_vars

\* A key holds Responses for two paths, the latest just admitted.
C18_Witness ==
    /\ run.saved = "ok"
    /\ Len(cache[ctx.req.host]) = 2
    /\ OnePerPath

----------------------------------------------------------------------------
(* Construction (SpecNew) *)

\* C19 as stated: New fails with an error and returns no proxy when the
\* configured list of backend addresses is empty.
C19_NoBackends_AsStated ==
    (boot.state = "returned" /\ boot.config.backendsAddrs = <<>>)
        => boot.err /\ boot.p = NoProxy

\* A condition that compiles: every token names a recognised variable, with
\* a sub-key where one is required and none elsewhere, and the rest is an
\* expression.
Compiles(source) ==
    \A i \in 1..Len(source) :
        /\ source[i].kind # "junk"
        /\ source[i].kind = "var" =>
              \/ source[i].name \in ScalarNames /\ source[i].sub = ""
              \/ source[i].name \in KeyedNames /\ source[i].sub # ""

AllCompile(c) ==
    /\ \A i \in 1..Len(c.nocache) : Compiles(c.nocache[i])
    /\ \A i \in 1..Len(c.set) : Compiles(c.set[i].when)
    /\ \A i \in 1..Len(c.unset) : Compiles(c.unset[i].when)

\* C20: New fails with an error and returns no proxy when CleanFrequency is
\* 0, or when a no-cache rule, a Set header condition or an Unset header
\* condition does not compile; when New succeeds the proxy holds one
\* compiled no-cache rule per configured rule and one header rule per
\* configured Set and Unset entry.
C20_NewValidates ==
    boot.state = "returned" =>
        /\ (boot.config.cleanFrequency = 0 \/ ~AllCompile(boot.config))
              => boot.err /\ boot.p = NoProxy
        /\ ~boot.err =>
              /\ Len(boot.p.nocacheRules) = Len(boot.config.nocache)
              /\ Len(boot.p.headersRules) = Len(boot.config.set) + Len(boot.config.unset)
              /\ \A i \in 1..Len(boot.config.set) :
                    boot.p.headersRules[i].action = setHeaderAction
              /\ \A i \in 1..Len(boot.config.unset) :
                    boot.p.headersRules[Len(boot.config.set) + i].action = unsetHeaderAction

\* New succeeded on a configuration with two no-cache rules, a Set and an
\* Unset header.
C20_Witness ==
    /\ boot.state = "returned"
    /\ ~boot.err
    /\ Len(boot.p.nocacheRules) = 2
    /\ Len(boot.p.headersRules) = 2
    /\ boot.config.backendsAddrs # <<>>

----------------------------------------------------------------------------
(* The admin endpoint (SpecAdmin) *)

AdminHandled == admin # NoAdmin

\* The invalidator takes the entry: it names a host and the queue has room.
Accepts(queue, e) == e.host # "" /\ Len(queue) < QueueCap

\* C21: an admin request whose entry the invalidator accepts is answered 200
\* OK and its entry is enqueued exactly once; one the invalidator rejects
\* (queue full, malformed entry) is answered 400 with the error message and
\* changes neither the queue nor the cache; a body that is not valid JSON
\* enqueues nothing.
C21_AdminEndpoint ==
    [][AdminHandled' =>
          /\ (admin'.added /\ Accepts(chEntries, admin'.handed)) =>
                /\ admin'.status = StatusOK /\ admin'.text = "OK"
                /\ chEntries' = Append(chEntries, admin'.handed)
          /\ (admin'.added /\ ~Accepts(chEntries, admin'.handed)) =>
                /\ admin'.status = StatusBadRequest
                /\ admin'.text \in {"malformed entry", "queue full"}
                /\ chEntries' = chEntries /\ cache' = cache
          /\ admin'.body.valid = admin'.added
          /\ ~admin'.body.valid => chEntries' = chEntries]_vars

\* A request was rejected because the queue was full.
C21_Witness ==
    /\ AdminHandled
    /\ admin.status = StatusBadRequest
    /\ admin.text = "queue full"
    /\ Len(chEntries) = QueueCap

----------------------------------------------------------------------------
(* The invalidator (SpecInv) *)

\* The queue is empty: every entry accepted has been processed.
Drained == chEntries = <<>>

\* C24 as stated: once a by-host entry for H has been accepted and the queue
\* has been drained, H is not in the cache (as long as no request for H has
\* arrived or has reached a backend since the entry was accepted).
C24_HostGone_AsStated ==
    \A h \in invLog.accepted : Drained => cache[h] = EmptyEntry

----------------------------------------------------------------------------
(* One binding per token occurrence (SpecNew) *)

\* The positions of the $(...) tokens of a rule, and those with a sub-key.
Tokens(source) == {j \in 1..Len(source) : source[j].kind = "var"}
KeyedTokens(source) == {j \in Tokens(source) : source[j].name \in KeyedNames}

\* C26 as stated: every occurrence of a keyed token gets its own binding: a
\* compiled rule has one RuleParam per token occurrence, and the identifiers
\* that replace two occurrences of a keyed token are distinct.
C26_BindingPerOccurrence_AsStated ==
    (boot.state = "returned" /\ ~boot.err) =>
        \A i \in 1..Len(boot.config.nocache) :
            LET source == boot.config.nocache[i]
                rule   == boot.p.nocacheRules[i]
            IN  /\ Len(rule.params) = Cardinality(Tokens(source))
                /\ \A j, k \in KeyedTokens(source) :
                      j # k => rule.expr[j] # rule.expr[k]

----------------------------------------------------------------------------
(* The frame of a cache write (Spec) *)

\* C28 as stated: in a sequential run, a handler invocation that writes to
\* the cache for host H and path P keeps every Response stored under H for
\* the other paths, whether or not it looked the host up in the cache (the
\* invocations whose cache read failed are left aside).
C28_WriteKeepsOthers_AsStated ==
    [][(Handled' /\ ~overlapped' /\ run'.saved = "ok" /\ run'.get # "failed") =>
          \A q \in Paths \ {ctx'.req.path} :
              GetResponse(cache'[ctx'.req.host], q) = GetResponse(cache[ctx'.req.host], q)]_vars

----------------------------------------------------------------------------
(* Tool bundles (SpecPar) *)

InFlightHandlers == {w \in HandlerWorkers : hw[w].pc # "idle"}
HeldTools == {t \in Bundles : tools[t].held}

\* C27: every handler invocation acquires one tool bundle and releases it
\* once, when it returns, on every path; no bundle is held by two in-flight
\* requests, and a bundle in the pool is reset: empty entry, params and
\* client buffers.
C27_ToolBundles ==
    /\ [](/\ \A w \in InFlightHandlers : hw[w].pt \in HeldTools
          /\ \A w, v \in InFlightHandlers : w # v => hw[w].pt # hw[v].pt
          /\ Cardinality(HeldTools) = Cardinality(InFlightHandlers)
          /\ \A t \in Bundles \ HeldTools : tools[t] = NewTools)
    /\ [][\A w \in HandlerWorkers :
             /\ (hw[w].pc = "idle" /\ hw'[w].pc # "idle") =>
                   /\ hw'[w].pt \in HeldTools' \ HeldTools
                   /\ tools[hw'[w].pt] = NewTools
             /\ (hw[w].pc # "idle" /\ hw'[w].pc # "idle") =>
                   /\ hw'[w].pt = hw[w].pt
                   /\ hw[w].pt \in HeldTools'
             /\ (hw[w].pc # "idle" /\ hw'[w].pc = "idle") =>
                   /\ hw[w].pt \in HeldTools \ HeldTools'
                   /\ tools'[hw[w].pt] = NewTools]_vars

\* A worker returned after a failed cache read and a failed backend call,
\* its bundle back in the pool, while the other worker holds a bundle with a
\* decoded entry.
C27_Witness ==
    /\ hw["w1"].pc = "idle" /\ hw["w1"].get = "failed" /\ hw["w1"].req # NoReq
    /\ hw["w2"].pc = "missed"
    /\ tools[hw["w2"].pt].entry # EmptyEntry
    /\ tools[hw["w1"].pt] = NewTools

----------------------------------------------------------------------------
(* Concurrent cache writes (SpecPar) *)

\* The worker's last invocation read the cache, missed and stored a Response.
Admitted(w, h, p) ==
    /\ hw[w].pc = "idle"
    /\ hw[w].req = [host |-> h, path |-> p]
    /\ hw[w].get = "ok"
    /\ hw[w].saved = "ok"

\* C29 as stated: when two request workers missed on the same host for
\* different paths and both stored their 200 response, then after both
\* returned the host's Entry holds a Response for each path.
C29_BothAdmitted_AsStated ==
    \A h \in Hosts, p1, p2 \in Paths :
        (p1 # p2 /\ Admitted("w1", h, p1) /\ Admitted("w2", h, p2)) =>
            HasResponse(cache[h], p1) /\ HasResponse(cache[h], p2)

\* C30 as stated: once an invalidation of (H, P) has been processed, no
\* Response for P is stored under H unless P was fetched from a backend
\* after the invalidation.
C30_NoResurrection_AsStated ==
    \A hp \in invLog.purged : ~HasResponse(cache[hp[1]], hp[2])

----------------------------------------------------------------------------
(* Hosts kept apart (SpecPar) *)

\* C31: every Response stored under a host key H was produced by a backend
\* fetch of a request whose Host was H: a tool bundle's entry buffer, reused
\* for requests of different hosts, never carries a Response of one host
\* into the Entry of another.
C31_NoCrossHost ==
    \A h \in Hosts : \A i \in 1..Len(cache[h]) : <<h, cache[h][i]>> \in invLog.fetched

\* One bundle served a request of h1 and then one of h2, both stored, and
\* h2 holds nothing of h1's other path.
C31_Witness ==
    /\ Admitted("w1", "h1", "/p2")
    /\ Admitted("w2", "h2", "/p1")
    /\ hw["w1"].pt = hw["w2"].pt
    /\ HasResponse(cache["h1"], "/p2")
    /\ Len(cache["h2"]) = 1
    /\ cache["h2"][1].path = "/p1"

====
